---- MODULE Spec2Model ----
(***************************************************************************)
(* The reactive-state engine of jotai-from-scratch (lib/atoms.ts and        *)
(* lib/useAtom.ts): atoms, the primitive value store, the dependency graph, *)
(* the subscriptions, and the read / write / subscribe operations that      *)
(* useAtom hands to its callers.                                            *)
(*                                                                          *)
(* Every operation is synchronous, so each action below is one whole call   *)
(* from the outside (getSnapshot, setValue, subscribe, the cleanup function *)
(* subscribe returns).  The recursive functions of the code are recursive   *)
(* operators that thread the mutable module state through the call as the   *)
(* record st:                                                               *)
(*    vals  atomPrimitiveValues          deps  dependencies                 *)
(*    cur   currentlyComputingAtom       err   the exception in flight      *)
(*    log   the subscriptions invoked    hand  the write functions invoked  *)
(*    ran   the derived atoms whose read function was run                   *)
(* JavaScript Sets iterate in insertion order, so a Set is a sequence       *)
(* without duplicates; a Map entry that is absent is the empty sequence.    *)
(***************************************************************************)
EXTENDS Integers, Sequences, FiniteSets, TLC

VARIABLES
    atoms,                   \* the atoms created by atom(...): id -> definition
    callbacks,               \* the callbacks of the components: id -> atom it re-reads
    mounts,                  \* the <<atom, callback>> pairs components subscribe with
    atomPrimitiveValues,     \* atoms.ts: Map<AnyPrimitiveAtom, AnyValue>
    dependencies,            \* useAtom.ts: Map<AnyAtom, Set<AnyAtom>>
    subscriptions,           \* useAtom.ts: Map<AnyAtom, Set<() => void>>
    currentlyComputingAtom,  \* useAtom.ts: AnyAtom | null
    cleanups,                \* the cleanup functions subscribe has returned
    evaluated,               \* the derived atoms whose read function has run
    last                     \* the last call made from outside and its outcome

vars == <<atoms, callbacks, mounts, atomPrimitiveValues, dependencies,
          subscriptions, currentlyComputingAtom, cleanups, evaluated, last>>

\* Largest value a primitive atom is given.
MaxVal == 2
\* Depth of nested updateReadonlyDerivedAtom calls the call stack holds.
MaxDepth == 5

NoAtom == "null"
Ok == "ok"
ReadOnlyError == "Cannot set read-only derived atom"
ThrownError == "thrown by read"
StackError == "Maximum call stack size exceeded"

Values == 0..MaxVal

-----------------------------------------------------------------------------
(* atoms.ts: atom(value), atom(read), atom(read, write)                    *)

NoFn == [k |-> "none"]

\* atom(value): a primitive atom, seeded in atomPrimitiveValues
primitive(value) ==
    [type |-> "primitive", brand |-> value, read |-> NoFn, write |-> NoFn]

\* atom(read) and atom(read, write): a derived atom
derived(read, write) ==
    [type |-> "derived", brand |-> 0, read |-> read, write |-> write]

\* Read functions.
\* (get) => get(a) * m / d
scale(a, m, d) == [k |-> "scale", a |-> a, m |-> m, d |-> d]
\* (get) => get(a) + get(b)
sum(a, b) == [k |-> "sum", a |-> a, b |-> b]
\* (get) => get(c) === 0 ? get(a) : get(b)
cond(c, a, b) == [k |-> "cond", c |-> c, a |-> a, b |-> b]
\* (get) => { const v = get(a); if (v === t) throw new Error(); return v }
guard(a, t) == [k |-> "guard", a |-> a, t |-> t]

\* Write functions.
\* (get, set, newValue) => { const current = get(s); set(s, current + newValue) }
addTo(s) == [k |-> "addTo", s |-> s]
\* (get, set, newValue) => set(t, newValue)
setTo(t) == [k |-> "setTo", t |-> t]

-----------------------------------------------------------------------------
(* The programs the engine is run on.                                       *)

\* src/App.tsx
AppAtoms ==
    [countAtom |-> primitive(0),
     countAtom2 |-> primitive(0),
     doubledAtom |-> derived(scale("countAtom", 2, 1), NoFn),
     tripledAtom |-> derived(scale("doubledAtom", 3, 2), NoFn),
     countAtom3WithWrite |-> derived(scale("countAtom", 2, 1), addTo("countAtom"))]

AppProgram ==
    [atoms |-> AppAtoms,
     callbacks |-> [Counter |-> "countAtom", TripleView |-> "tripledAtom"],
     mounts |-> {<<"countAtom", "Counter">>, <<"tripledAtom", "TripleView">>}]

\* App.tsx before countAtom3WithWrite was added: Counter2 on countAtom2,
\* TripleView on tripledAtom.
CountersAtoms ==
    [countAtom |-> primitive(0),
     countAtom2 |-> primitive(0),
     doubledAtom |-> derived(scale("countAtom", 2, 1), NoFn),
     tripledAtom |-> derived(scale("doubledAtom", 3, 2), NoFn)]

CountersProgram ==
    [atoms |-> CountersAtoms,
     callbacks |-> [Counter2 |-> "countAtom2", TripleView |-> "tripledAtom"],
     mounts |-> {<<"countAtom2", "Counter2">>, <<"tripledAtom", "TripleView">>}]

\* Two components on one primitive atom, one derived atom beside it.
FanOutProgram ==
    [atoms |-> [S |-> primitive(0),
                D |-> derived(scale("S", 2, 1), NoFn)],
     callbacks |-> [first |-> "S", second |-> NoAtom],
     mounts |-> {<<"S", "first">>, <<"S", "second">>}]

\* D reads D1 and D2, which both read S.
DiamondProgram ==
    [atoms |-> [S |-> primitive(0),
                D1 |-> derived(scale("S", 2, 1), NoFn),
                D2 |-> derived(scale("S", 3, 1), NoFn),
                D |-> derived(sum("D1", "D2"), NoFn)],
     callbacks |-> [onS |-> "S", onD |-> "D"],
     mounts |-> {<<"S", "onS">>, <<"D", "onD">>}]

\* Read functions that read different atoms on different calls:
\* P reads Q while S is 0, Q reads P while S is not 0.
DynamicProgram ==
    [atoms |-> [S |-> primitive(0),
                P |-> derived(cond("S", "Q", "S"), NoFn),
                Q |-> derived(cond("S", "S", "P"), NoFn)],
     callbacks |-> [onP |-> "P", onQ |-> NoAtom],
     mounts |-> {<<"P", "onP">>, <<"Q", "onQ">>}]

\* A read function that throws while S is 1, read by U; W writes S.
ThrowingProgram ==
    [atoms |-> [S |-> primitive(0),
                T |-> derived(guard("S", 1), NoFn),
                U |-> derived(scale("T", 2, 1), NoFn),
                W |-> derived(scale("S", 2, 1), addTo("S"))],
     callbacks |-> [onS |-> NoAtom, onU |-> "U"],
     mounts |-> {<<"S", "onS">>, <<"U", "onU">>}]

\* Write functions that set a derived atom: WR sets the read-only R,
\* WW sets itself, WS sets the primitive S.
HandlerProgram ==
    [atoms |-> [S |-> primitive(0),
                R |-> derived(scale("S", 2, 1), NoFn),
                WR |-> derived(scale("S", 2, 1), setTo("R")),
                WW |-> derived(scale("R", 1, 1), setTo("WW")),
                WS |-> derived(scale("S", 1, 1), setTo("S"))],
     callbacks |-> [onS |-> NoAtom, onR |-> "R"],
     mounts |-> {<<"S", "onS">>, <<"R", "onR">>}]

\* X reads A only while S is 0; the callbacks read nothing.
StaleProgram ==
    [atoms |-> [S |-> primitive(0),
                A |-> primitive(0),
                X |-> derived(cond("S", "A", "S"), NoFn)],
     callbacks |-> [onA |-> NoAtom, onX |-> NoAtom],
     mounts |-> {<<"A", "onA">>, <<"X", "onX">>}]

\* S is read by D1 and D2, D1 is read by E; the callbacks read nothing.
TreeProgram ==
    [atoms |-> [S |-> primitive(0),
                D1 |-> derived(scale("S", 2, 1), NoFn),
                E |-> derived(scale("D1", 3, 1), NoFn),
                D2 |-> derived(scale("S", 3, 1), NoFn)],
     callbacks |-> [onD1 |-> NoAtom, onE |-> NoAtom, onD2 |-> NoAtom],
     mounts |-> {<<"D1", "onD1">>, <<"E", "onE">>, <<"D2", "onD2">>}]

Programs ==
    {AppProgram, FanOutProgram, DiamondProgram, DynamicProgram,
     ThrowingProgram, HandlerProgram, StaleProgram, TreeProgram,
     CountersProgram}

-----------------------------------------------------------------------------
(* Set and Map helpers                                                      *)

InSeq(x, s) == \E i \in 1..Len(s) : s[i] = x

\* Faulty variant: an array push, which keeps a value that is added again.
SetAdd_push(s, x) == Append(s, x)

\* Set.prototype.add
SetAdd(s, x) == IF InSeq(x, s) THEN s ELSE Append(s, x)

\* Set.prototype.delete
SetDelete(s, x) == SelectSeq(s, LAMBDA y : y # x)

AtomIds == DOMAIN atoms
PrimitiveIds == {a \in AtomIds : atoms[a].type = "primitive"}
DerivedIds == {a \in AtomIds : atoms[a].type = "derived"}

\* the atoms a read function names
ReadsOf(fn) ==
    CASE fn.k = "scale" -> {fn.a}
      [] fn.k = "sum" -> {fn.a, fn.b}
      [] fn.k = "cond" -> {fn.c, fn.a, fn.b}
      [] fn.k = "guard" -> {fn.a}
      [] OTHER -> {}

-----------------------------------------------------------------------------
(* useAtom.ts: the read path                                                *)

RECURSIVE get(_, _), getAtomValue(_, _), read(_, _)

Raised(st) == st.err # Ok

\* the read function of a derived atom, run with the tracking get
read(fn, st) ==
    CASE fn.k = "scale" ->
            LET r == get(fn.a, st)
            IN  IF Raised(r.st) THEN r
                ELSE [st |-> r.st, val |-> (r.val * fn.m) \div fn.d]
      [] fn.k = "sum" ->
            LET r1 == get(fn.a, st)
            IN  IF Raised(r1.st) THEN r1
                ELSE LET r2 == get(fn.b, r1.st)
                     IN  IF Raised(r2.st) THEN r2
                         ELSE [st |-> r2.st, val |-> r1.val + r2.val]
      [] fn.k = "cond" ->
            LET rc == get(fn.c, st)
            IN  IF Raised(rc.st) THEN rc
                ELSE IF rc.val = 0 THEN get(fn.a, rc.st) ELSE get(fn.b, rc.st)
      [] fn.k = "guard" ->
            LET r == get(fn.a, st)
            IN  IF Raised(r.st) THEN r
                ELSE IF r.val = fn.t
                     THEN [st |-> [r.st EXCEPT !.err = ThrownError], val |-> 0]
                     ELSE r

\* Faulty variant: the edge is recorded the other way round, the atom read
\* being added to the Set of the atom being computed.
get_reversed(atom, st) ==
    LET tracked ==
            IF st.cur # NoAtom
            THEN [st EXCEPT !.deps[st.cur] = SetAdd(@, atom)]
            ELSE st
    IN  getAtomValue(atom, tracked)

\* function get(atom)
get(atom, st) ==
    LET tracked ==
            IF st.cur # NoAtom
            THEN [st EXCEPT !.deps[atom] = SetAdd(@, st.cur)]
            ELSE st
    IN  getAtomValue(atom, tracked)

\* Faulty variant: a primitive atom yields the value it was created with
\* (atom.__brand), not the entry of atomPrimitiveValues.
getAtomValue_brand(atom, st) ==
    IF atoms[atom].type = "primitive"
    THEN [st |-> st, val |-> atoms[atom].brand]
    ELSE LET prevComputingAtom == st.cur
             r == read(atoms[atom].read, [st EXCEPT !.cur = atom, !.ran = @ \cup {atom}])
         IN  [st |-> [r.st EXCEPT !.cur = prevComputingAtom], val |-> r.val]

\* Faulty variant: no finally; currentlyComputingAtom is restored only when
\* the read function returns.
getAtomValue_noFinally(atom, st) ==
    IF atoms[atom].type = "primitive"
    THEN [st |-> st, val |-> st.vals[atom]]
    ELSE LET prevComputingAtom == st.cur
             r == read(atoms[atom].read, [st EXCEPT !.cur = atom, !.ran = @ \cup {atom}])
         IN  IF Raised(r.st) THEN r
             ELSE [st |-> [r.st EXCEPT !.cur = prevComputingAtom], val |-> r.val]

\* Faulty variant: the edges recorded for the atom by earlier evaluations
\* are dropped before its read function runs again.
getAtomValue_pruned(atom, st) ==
    IF atoms[atom].type = "primitive"
    THEN [st |-> st, val |-> st.vals[atom]]
    ELSE LET prevComputingAtom == st.cur
             pruned == [a \in DOMAIN st.deps |-> SetDelete(st.deps[a], atom)]
             r == read(atoms[atom].read,
                       [st EXCEPT !.cur = atom, !.ran = @ \cup {atom},
                                  !.deps = pruned])
         IN  [st |-> [r.st EXCEPT !.cur = prevComputingAtom], val |-> r.val]

\* Faulty variant: only the outermost evaluation sets currentlyComputingAtom;
\* a nested one leaves the atom of its caller in place.
getAtomValue_outermost(atom, st) ==
    IF atoms[atom].type = "primitive"
    THEN [st |-> st, val |-> st.vals[atom]]
    ELSE LET prevComputingAtom == st.cur
             r == read(atoms[atom].read,
                       [st EXCEPT !.cur = IF @ = NoAtom THEN atom ELSE @,
                                  !.ran = @ \cup {atom}])
         IN  [st |-> [r.st EXCEPT !.cur = prevComputingAtom], val |-> r.val]

\* function getAtomValue(atom)
getAtomValue(atom, st) ==
    IF atoms[atom].type = "primitive"
    THEN [st |-> st, val |-> st.vals[atom]]
    ELSE LET prevComputingAtom == st.cur
             r == read(atoms[atom].read, [st EXCEPT !.cur = atom, !.ran = @ \cup {atom}])
         IN  \* finally: restored on return and on throw
             [st |-> [r.st EXCEPT !.cur = prevComputingAtom], val |-> r.val]

-----------------------------------------------------------------------------
(* useAtom.ts: the write path                                               *)

RECURSIVE notifySubscriptions(_, _, _), updateDependents(_, _, _, _),
          updateReadonlyDerivedAtom(_, _, _)

\* subscription(): the callback useSyncExternalStore subscribed; it re-reads
\* the snapshot of its component's atom to decide whether to re-render
callback(cb, atom, st) ==
    IF callbacks[cb] = NoAtom
    THEN [st EXCEPT !.log = Append(@, [atom |-> atom, cb |-> cb, saw |-> <<>>])]
    ELSE LET r == getAtomValue(callbacks[cb], st)
         IN  [r.st EXCEPT !.log =
                 Append(@, [atom |-> atom, cb |-> cb,
                            saw |-> IF Raised(r.st) THEN <<>> ELSE <<r.val>>])]

\* Faulty variant: only the first subscription of the Set is invoked.
notifySubscriptions_first(atom, i, st) ==
    IF Raised(st) \/ i > Len(subscriptions[atom]) THEN st
    ELSE callback(subscriptions[atom][i], atom, st)

\* subscriptions.get(atom)?.forEach((subscription) => subscription()), from
\* the i-th subscription on
notifySubscriptions(atom, i, st) ==
    IF Raised(st) \/ i > Len(subscriptions[atom]) THEN st
    ELSE notifySubscriptions(atom, i + 1,
                             callback(subscriptions[atom][i], atom, st))

\* dependentAtoms.forEach(updateReadonlyDerivedAtom), from the i-th dependent
\* on; forEach also visits the atoms added to the Set while it runs
updateDependents(atom, i, st, depth) ==
    IF Raised(st) \/ i > Len(st.deps[atom]) THEN st
    ELSE updateDependents(atom, i + 1,
             updateReadonlyDerivedAtom(st.deps[atom][i], st, depth + 1), depth)

\* Faulty variant: an atom whose subscriptions this call has already
\* invoked is not updated again.
updateReadonlyDerivedAtom_once(atom, st, depth) ==
    IF depth > MaxDepth THEN [st EXCEPT !.err = StackError]
    ELSE IF \E i \in 1..Len(st.log) : st.log[i].atom = atom THEN st
    ELSE updateDependents(atom, 1, notifySubscriptions(atom, 1, st), depth)

\* Faulty variant: the derived atom is evaluated before its subscriptions
\* are invoked.
updateReadonlyDerivedAtom_eager(atom, st, depth) ==
    IF depth > MaxDepth THEN [st EXCEPT !.err = StackError]
    ELSE LET r == getAtomValue(atom, st)
         IN  IF Raised(r.st) THEN r.st
             ELSE updateDependents(atom, 1,
                                   notifySubscriptions(atom, 1, r.st), depth)

\* Faulty variant: the dependents of the atom are updated first and its own
\* subscriptions are invoked after them.
updateReadonlyDerivedAtom_postOrder(atom, st, depth) ==
    IF depth > MaxDepth THEN [st EXCEPT !.err = StackError]
    ELSE notifySubscriptions(atom, 1, updateDependents(atom, 1, st, depth))

\* function updateReadonlyDerivedAtom(atom), depth calls deep
updateReadonlyDerivedAtom(atom, st, depth) ==
    IF depth > MaxDepth THEN [st EXCEPT !.err = StackError]
    ELSE updateDependents(atom, 1, notifySubscriptions(atom, 1, st), depth)

\* Faulty variant: the subscriptions and the dependents are notified first
\* and the new value is stored afterwards.
updatePrimitiveAtom_notifyFirst(atom, newValue, st) ==
    LET notified == updateDependents(atom, 1, notifySubscriptions(atom, 1, st), 0)
    IN  [notified EXCEPT !.vals[atom] = newValue]

\* Faulty variant: a value equal to the stored one is not written and
\* nothing is notified.
updatePrimitiveAtom_ifChanged(atom, newValue, st) ==
    IF st.vals[atom] = newValue THEN st
    ELSE LET stored == [st EXCEPT !.vals[atom] = newValue]
         IN  updateDependents(atom, 1, notifySubscriptions(atom, 1, stored), 0)

\* Faulty variant: the value is stored under the atom's initial value, so
\* every primitive atom created with the same initial value receives it.
updatePrimitiveAtom_byBrand(atom, newValue, st) ==
    LET stored == [st EXCEPT !.vals =
                      [a \in DOMAIN st.vals |->
                          IF atoms[a].brand = atoms[atom].brand
                          THEN newValue ELSE st.vals[a]]]
    IN  updateDependents(atom, 1, notifySubscriptions(atom, 1, stored), 0)

\* function updatePrimitiveAtom(atom, newValue)
updatePrimitiveAtom(atom, newValue, st) ==
    LET stored == [st EXCEPT !.vals[atom] = newValue]
    IN  updateDependents(atom, 1, notifySubscriptions(atom, 1, stored), 0)

\* Faulty variant: set on a derived atom is rejected as setValue rejects a
\* derived atom without a write function.
updateAtom_rejects(atom, newValue, st) ==
    IF atoms[atom].type = "primitive"
    THEN updatePrimitiveAtom(atom, newValue, st)
    ELSE [st EXCEPT !.err = ReadOnlyError]

\* Faulty variant: set on a derived atom also stores the value for it.
updateAtom_storesDerived(atom, newValue, st) ==
    IF atoms[atom].type = "primitive"
    THEN updatePrimitiveAtom(atom, newValue, st)
    ELSE updateReadonlyDerivedAtom(atom,
             [st EXCEPT !.vals = [a \in DOMAIN st.vals \cup {atom} |->
                                     IF a = atom THEN newValue ELSE st.vals[a]]],
             1)

\* function updateAtom(atom, newValue): the set handed to write functions
updateAtom(atom, newValue, st) ==
    IF atoms[atom].type = "primitive"
    THEN updatePrimitiveAtom(atom, newValue, st)
    ELSE updateReadonlyDerivedAtom(atom, st, 1)

\* Faulty variant: the write function of App.tsx sets newValue itself,
\* without adding it to the current count.
write_noCurrent(fn, newValue, st) ==
    CASE fn.k = "addTo" ->
            LET r == get(fn.s, st)
            IN  IF Raised(r.st) THEN r.st
                ELSE updateAtom(fn.s, newValue, r.st)
      [] fn.k = "setTo" -> updateAtom(fn.t, newValue, st)

\* atom.write(get, updateAtom, newValue)
write(fn, newValue, st) ==
    CASE fn.k = "addTo" ->
            LET r == get(fn.s, st)
            IN  IF Raised(r.st) THEN r.st
                ELSE updateAtom(fn.s, r.val + newValue, r.st)
      [] fn.k = "setTo" -> updateAtom(fn.t, newValue, st)

\* nextValue: a plain value v, or the updater (prev) => prev + v
Plain(v) == [fn |-> "none", v |-> v]
Updater(v) == [fn |-> "add", v |-> v]

\* Faulty variant: a derived atom without a write function is not rejected
\* but handed to updateAtom like a primitive atom.
setValue_noReject(atom, nextValue, st) ==
    LET r == IF nextValue.fn = "none"
             THEN [st |-> st, val |-> nextValue.v]
             ELSE LET g == getAtomValue(atom, st)
                  IN  IF Raised(g.st) THEN g
                      ELSE [st |-> g.st, val |-> g.val + nextValue.v]
    IN  IF Raised(r.st) THEN r.st
        ELSE IF atoms[atom].type = "derived" /\ atoms[atom].write # NoFn
        THEN write(atoms[atom].write, r.val,
                   [r.st EXCEPT !.hand = Append(@, atom)])
        ELSE updateAtom(atom, r.val, r.st)

\* Faulty variant: the updater is applied a second time, to its own result.
setValue_twice(atom, nextValue, st) ==
    LET r == IF nextValue.fn = "none"
             THEN [st |-> st, val |-> nextValue.v]
             ELSE LET g == getAtomValue(atom, st)
                  IN  IF Raised(g.st) THEN g
                      ELSE [st |-> g.st,
                            val |-> (g.val + nextValue.v) + nextValue.v]
        newValue == r.val
    IN  IF Raised(r.st) THEN r.st
        ELSE IF atoms[atom].type = "derived" /\ atoms[atom].write # NoFn
        THEN write(atoms[atom].write, newValue,
                   [r.st EXCEPT !.hand = Append(@, atom)])
        ELSE IF atoms[atom].type = "primitive"
        THEN updateAtom(atom, newValue, r.st)
        ELSE [r.st EXCEPT !.err = ReadOnlyError]

\* const setValue = (nextValue) => ...
setValue(atom, nextValue, st) ==
    LET r == IF nextValue.fn = "none"
             THEN [st |-> st, val |-> nextValue.v]
             ELSE LET g == getAtomValue(atom, st)
                  IN  IF Raised(g.st) THEN g
                      ELSE [st |-> g.st, val |-> g.val + nextValue.v]
        newValue == r.val
    IN  IF Raised(r.st) THEN r.st
        ELSE IF atoms[atom].type = "derived" /\ atoms[atom].write # NoFn
        THEN write(atoms[atom].write, newValue,
                   [r.st EXCEPT !.hand = Append(@, atom)])
        ELSE IF atoms[atom].type = "primitive"
        THEN updateAtom(atom, newValue, r.st)
        ELSE [r.st EXCEPT !.err = ReadOnlyError]

-----------------------------------------------------------------------------
(* The calls made from outside                                              *)

\* the module state at the start of a call
Entry ==
    [vals |-> atomPrimitiveValues, deps |-> dependencies,
     cur |-> currentlyComputingAtom, err |-> Ok, log |-> <<>>, hand |-> <<>>,
     ran |-> {}]

\* the module state a call leaves behind
Leaves(st) ==
    /\ atomPrimitiveValues' = st.vals
    /\ dependencies' = st.deps
    /\ currentlyComputingAtom' = st.cur
    /\ evaluated' = evaluated \cup st.ran

\* what last keeps of a call; again says that the call repeats an earlier
\* one: a cleanup function invoked before, a setValue of the value stored,
\* a subscribe of a callback the atom's Set already holds
Outcome(op, atom, cb, arg, val, again, st) ==
    [op |-> op, atom |-> atom, cb |-> cb, arg |-> arg, val |-> val,
     again |-> again, err |-> st.err, log |-> st.log, hand |-> st.hand,
     ran |-> st.ran]

NoArg == [fn |-> "none", v |-> 0]

\* const getSnapshot = () => getAtomValue(atom)
GetSnapshot(atom) ==
    LET r == getAtomValue(atom, Entry)
    IN  /\ Leaves(r.st)
        /\ last' = Outcome("getSnapshot", atom, NoAtom, NoArg, r.val, FALSE, r.st)
        /\ UNCHANGED <<atoms, callbacks, mounts, subscriptions, cleanups>>

\* the setValue useAtom(atom) returns, called with nextValue
SetValue(atom, nextValue) ==
    LET st == setValue(atom, nextValue, Entry)
    IN  /\ \A a \in DOMAIN st.vals : st.vals[a] \in Values
        /\ Leaves(st)
        /\ last' = Outcome("setValue", atom, NoAtom, nextValue, 0,
                            /\ atoms[atom].type = "primitive"
                            /\ nextValue = Plain(atomPrimitiveValues[atom]), st)
        /\ UNCHANGED <<atoms, callbacks, mounts, subscriptions, cleanups>>

\* Faulty variant: subscribing to an atom also records it as a dependent of
\* the atoms its read function names, without evaluating it.
Subscribe_links(atom, cb) ==
    /\ <<atom, cb>> \in mounts
    /\ subscriptions' = [subscriptions EXCEPT ![atom] = SetAdd(@, cb)]
    /\ dependencies' =
          [a \in DOMAIN dependencies |->
              IF atoms[atom].type = "derived" /\ a \in ReadsOf(atoms[atom].read)
              THEN SetAdd(dependencies[a], atom)
              ELSE dependencies[a]]
    /\ cleanups' =
          IF \E c \in cleanups : c.atom = atom /\ c.cb = cb THEN cleanups
          ELSE cleanups \cup {[atom |-> atom, cb |-> cb, invoked |-> FALSE]}
    /\ last' = Outcome("subscribe", atom, cb, NoArg, 0,
                        InSeq(cb, subscriptions[atom]), Entry)
    /\ UNCHANGED <<atoms, callbacks, mounts, atomPrimitiveValues,
                   currentlyComputingAtom, evaluated>>

\* const subscribe = (callback) => ...; the cleanup function it returns is
\* kept (the first one returned for an atom and a callback: a later one
\* runs the same code on the same atom and callback)
Subscribe(atom, cb) ==
    /\ <<atom, cb>> \in mounts
    /\ subscriptions' = [subscriptions EXCEPT ![atom] = SetAdd(@, cb)]
    /\ cleanups' =
          IF \E c \in cleanups : c.atom = atom /\ c.cb = cb THEN cleanups
          ELSE cleanups \cup {[atom |-> atom, cb |-> cb, invoked |-> FALSE]}
    /\ last' = Outcome("subscribe", atom, cb, NoArg, 0,
                        InSeq(cb, subscriptions[atom]), Entry)
    /\ UNCHANGED <<atoms, callbacks, mounts, atomPrimitiveValues, dependencies,
                   currentlyComputingAtom, evaluated>>

\* Faulty variant: the cleanup function clears the atom's whole Set.
Cleanup_clear(c) ==
    /\ subscriptions' = [subscriptions EXCEPT ![c.atom] = <<>>]
    /\ cleanups' = (cleanups \ {c}) \cup {[c EXCEPT !.invoked = TRUE]}
    /\ last' = Outcome("cleanup", c.atom, c.cb, NoArg, 0, c.invoked, Entry)
    /\ UNCHANGED <<atoms, callbacks, mounts, atomPrimitiveValues, dependencies,
                   currentlyComputingAtom, evaluated>>

\* () => { subscriptions.get(atom)?.delete(callback) }
Cleanup(c) ==
    /\ subscriptions' = [subscriptions EXCEPT ![c.atom] = SetDelete(@, c.cb)]
    /\ cleanups' = (cleanups \ {c}) \cup {[c EXCEPT !.invoked = TRUE]}
    /\ last' = Outcome("cleanup", c.atom, c.cb, NoArg, 0, c.invoked, Entry)
    /\ UNCHANGED <<atoms, callbacks, mounts, atomPrimitiveValues, dependencies,
                   currentlyComputingAtom, evaluated>>

NextValues == {Plain(v) : v \in Values} \cup {Updater(1)}

\* the state after the module is loaded and program p has created its atoms
InitOf(p) ==
    /\ atoms = p.atoms
    /\ callbacks = p.callbacks
    /\ mounts = p.mounts
    /\ atomPrimitiveValues =
          [a \in {x \in DOMAIN p.atoms : p.atoms[x].type = "primitive"} |->
              p.atoms[a].brand]
    /\ dependencies = [a \in DOMAIN p.atoms |-> <<>>]
    /\ subscriptions = [a \in DOMAIN p.atoms |-> <<>>]
    /\ currentlyComputingAtom = NoAtom
    /\ cleanups = {}
    /\ evaluated = {}
    /\ last = [op |-> "init", atom |-> NoAtom, cb |-> NoAtom, arg |-> NoArg,
               val |-> 0, again |-> FALSE, err |-> Ok, log |-> <<>>,
               hand |-> <<>>, ran |-> {}]

Init == \E p \in Programs : InitOf(p)

Next ==
    \/ \E atom \in AtomIds : GetSnapshot(atom)
    \/ \E atom \in AtomIds, nextValue \in NextValues : SetValue(atom, nextValue)
    \/ \E atom \in AtomIds, cb \in DOMAIN callbacks : Subscribe(atom, cb)
    \/ \E c \in cleanups : Cleanup(c)

Spec == Init /\ [][Next]_vars

\* the engine under one program
SpecApp == InitOf(AppProgram) /\ [][Next]_vars
SpecFanOut == InitOf(FanOutProgram) /\ [][Next]_vars
SpecDiamond == InitOf(DiamondProgram) /\ [][Next]_vars
SpecDynamic == InitOf(DynamicProgram) /\ [][Next]_vars
SpecThrowing == InitOf(ThrowingProgram) /\ [][Next]_vars
SpecHandler == InitOf(HandlerProgram) /\ [][Next]_vars
SpecStale == InitOf(StaleProgram) /\ [][Next]_vars
SpecTree == InitOf(TreeProgram) /\ [][Next]_vars
SpecCounters == InitOf(CountersProgram) /\ [][Next]_vars

-----------------------------------------------------------------------------
(* What the checks below read off a call                                    *)

\* how many times the call invoked callback cb as a subscription of atom
Fired(log, atom, cb) ==
    Cardinality({i \in 1..Len(log) : log[i].atom = atom /\ log[i].cb = cb})

\* dependencies holds the edge: dependent reads atom
Edge(deps, atom, dependent) == InSeq(dependent, deps[atom])

RECURSIVE Reach(_, _)
\* the atoms of from and every atom recorded as a transitive dependent
Reach(deps, from) ==
    LET more == from \cup {d \in AtomIds : \E a \in from : Edge(deps, a, d)}
    IN  IF more = from THEN from ELSE Reach(deps, more)

-----------------------------------------------------------------------------
(* C1: a read of a derived atom returns its read function applied to the    *)
(* values stored now: in App.tsx, whatever was written before,              *)
(* doubledAtom and countAtom3WithWrite read as countAtom * 2 and            *)
(* tripledAtom as (countAtom * 2) * 1.5; no earlier result is returned.     *)
C1_DerivedReadIsCurrent ==
    (last.op = "getSnapshot" /\ last.err = Ok) =>
        /\ last.atom = "countAtom" => last.val = atomPrimitiveValues["countAtom"]
        /\ last.atom = "doubledAtom" =>
                last.val = atomPrimitiveValues["countAtom"] * 2
        /\ last.atom = "countAtom3WithWrite" =>
                last.val = atomPrimitiveValues["countAtom"] * 2
        /\ last.atom = "tripledAtom" =>
                last.val = ((atomPrimitiveValues["countAtom"] * 2) * 3) \div 2

\* tripledAtom is read after countAtom was written to a value other than
\* the one it was created with
C1_Witness ==
    /\ last.op = "getSnapshot" /\ last.atom = "tripledAtom" /\ last.err = Ok
    /\ atomPrimitiveValues["countAtom"] = MaxVal
    /\ last.val = 3 * MaxVal

-----------------------------------------------------------------------------
(* C2: in the diamond (D reads D1 and D2, both read S), once D has been     *)
(* evaluated so that the four edges exist, one setValue(S, v) invokes each  *)
(* callback subscribed to D exactly twice.                                  *)
DiamondEdges(deps) ==
    /\ Edge(deps, "S", "D1") /\ Edge(deps, "S", "D2")
    /\ Edge(deps, "D1", "D") /\ Edge(deps, "D2", "D")

C2_DiamondNotifiesTwice ==
    [][(/\ last'.op = "setValue" /\ last'.atom = "S"
        /\ DiamondEdges(dependencies))
       => \A cb \in DOMAIN callbacks :
             InSeq(cb, subscriptions["D"]) => Fired(last'.log, "D", cb) = 2]_vars

C2_Witness ==
    /\ last.op = "setValue" /\ last.atom = "S" /\ last.err = Ok
    /\ DiamondEdges(dependencies)
    /\ InSeq("onD", subscriptions["D"])
    /\ Fired(last.log, "D", "onD") = 2

-----------------------------------------------------------------------------
(* C3: setValue on a derived atom without a write function.                 *)
ReadOnlyWrite(l) ==
    /\ l.op = "setValue"
    /\ atoms[l.atom].type = "derived" /\ atoms[l.atom].write = NoFn

\* C3 as claimed: with a plain value or an updater function, the call fails
\* with the read-only error and changes neither the stored values, nor the
\* dependencies, nor the subscriptions, and invokes no callback.
C3_ReadOnlyWriteChangesNothing ==
    [][ReadOnlyWrite(last') =>
        /\ last'.err = ReadOnlyError
        /\ atomPrimitiveValues' = atomPrimitiveValues
        /\ dependencies' = dependencies
        /\ subscriptions' = subscriptions
        /\ last'.log = <<>>]_vars

\* C3 amended: the call always fails, stores nothing, changes no
\* subscription and invokes no callback and no write function.  With a
\* plain value it fails with the read-only error and leaves the
\* dependencies as they were.  With an updater function the atom is read
\* first: the dependencies become what that read leaves, and the error is
\* the one the read function threw if it threw, the read-only error
\* otherwise.
C3_ReadOnlyWriteOnlyReads ==
    [][ReadOnlyWrite(last') =>
        /\ last'.err # Ok
        /\ atomPrimitiveValues' = atomPrimitiveValues
        /\ subscriptions' = subscriptions
        /\ last'.log = <<>> /\ last'.hand = <<>>
        /\ last'.arg.fn = "none" =>
              /\ last'.err = ReadOnlyError
              /\ dependencies' = dependencies
        /\ last'.arg.fn # "none" =>
              LET r == getAtomValue(last'.atom, Entry)
              IN  /\ dependencies' = r.st.deps
                  /\ last'.err = IF Raised(r.st) THEN r.st.err ELSE ReadOnlyError]_vars

\* an updater function is given for U, which has a subscription and whose
\* dependencies are recorded; the call fails with the read-only error
C3_Witness ==
    /\ ReadOnlyWrite(last) /\ last.atom = "U" /\ last.arg.fn # "none"
    /\ last.err = ReadOnlyError
    /\ InSeq("onU", subscriptions["U"])
    /\ Edge(dependencies, "T", "U") /\ Edge(dependencies, "S", "T")

-----------------------------------------------------------------------------
(* C4: a write function that calls set(t, newValue) on atom t.              *)
SetsThrough(l) ==
    /\ l.op = "setValue" /\ l.arg.fn = "none"
    /\ atoms[l.atom].write.k = "setTo"

Target(l) == atoms[l.atom].write.t

\* C4 as claimed: the set a write function issues is handled like the same
\* setValue from outside: on a derived atom with a write function it
\* invokes that write function (WW, which sets itself, re-enters itself),
\* and on a derived atom without one it fails with the read-only error and
\* invokes no callback.
C4_HandlerWriteLikeExternal ==
    (SetsThrough(last) /\ atoms[Target(last)].type = "derived") =>
        IF atoms[Target(last)].write # NoFn
        THEN Len(last.hand) >= 2 /\ last.hand[2] = Target(last)
        ELSE last.err = ReadOnlyError /\ last.log = <<>>

\* C4 amended: the set a write function issues is updateAtom.  On a
\* primitive atom it stores the value and invokes the atom's callbacks, as
\* a setValue from outside does.  On a derived atom, with or without a
\* write function, it invokes no write function, raises no read-only
\* error and stores nothing: it invokes the callbacks of that atom (and
\* goes on to its dependents).
C4_HandlerWriteIsUpdateAtom ==
    [][SetsThrough(last') =>
        /\ last'.hand = <<last'.atom>>
        /\ last'.err # ReadOnlyError
        /\ atoms[Target(last')].type = "primitive" =>
              /\ atomPrimitiveValues' =
                    [atomPrimitiveValues EXCEPT ![Target(last')] = last'.arg.v]
              /\ \A cb \in DOMAIN callbacks :
                    Fired(last'.log, Target(last'), cb) =
                       IF InSeq(cb, subscriptions[Target(last')]) THEN 1 ELSE 0
        /\ atoms[Target(last')].type = "derived" =>
              /\ atomPrimitiveValues' = atomPrimitiveValues
              /\ last'.err = Ok =>
                    \A cb \in DOMAIN callbacks :
                       InSeq(cb, subscriptions[Target(last')]) =>
                          Fired(last'.log, Target(last'), cb) >= 1]_vars

\* WR's write function has set the read-only R: no error, R's callback ran
C4_Witness ==
    /\ SetsThrough(last) /\ last.atom = "WR"
    /\ last.err = Ok /\ last.hand = <<"WR">>
    /\ Fired(last.log, "R", "onR") = 1

-----------------------------------------------------------------------------
(* C5: getSnapshot and the dependencies.                                    *)

\* C5 as claimed: getSnapshot(atom) never adds an edge to the dependencies,
\* for a primitive or a derived atom, in any state.
C5_SnapshotAddsNoEdge ==
    [][last'.op = "getSnapshot" => dependencies' = dependencies]_vars

\* C5 amended: getSnapshot(atom) records nothing against its caller: the
\* dependents of atom itself stay as they were, and for a primitive atom
\* the dependencies do not change at all.  For a derived atom it runs the
\* read function under the tracking get, so it may add edges, each from an
\* atom that a derived atom's read function names to that derived atom,
\* and it removes none.
C5_SnapshotTracksOnlyInside ==
    [][last'.op = "getSnapshot" =>
        /\ dependencies'[last'.atom] = dependencies[last'.atom]
        /\ atoms[last'.atom].type = "primitive" => dependencies' = dependencies
        /\ \A a \in AtomIds :
              /\ SubSeq(dependencies'[a], 1, Len(dependencies[a])) = dependencies[a]
              /\ \A d \in AtomIds :
                    (Edge(dependencies', a, d) /\ ~Edge(dependencies, a, d)) =>
                       /\ atoms[d].type = "derived"
                       /\ a \in ReadsOf(atoms[d].read)]_vars

\* a snapshot of Q taken while S is not 0 has added the edge from P to Q
\* next to the edges into P recorded earlier
C5_Witness ==
    /\ last.op = "getSnapshot" /\ last.atom = "Q" /\ last.err = Ok
    /\ atomPrimitiveValues["S"] # 0
    /\ Edge(dependencies, "P", "Q") /\ Edge(dependencies, "Q", "P")
    /\ dependencies["Q"] = <<"P">>

-----------------------------------------------------------------------------
(* C6: propagation is cycle-free and terminates: when every run of a read   *)
(* function terminates, a setValue on a primitive atom invokes finitely     *)
(* many callbacks and returns, the dependencies holding no cycle that can   *)
(* be reached from the atom written.  A propagation that does not           *)
(* terminate ends when the call stack is exhausted.                         *)
C6_PropagationTerminates ==
    (last.op = "setValue" /\ atoms[last.atom].type = "primitive") =>
        last.err # StackError

-----------------------------------------------------------------------------
(* C7: invoking a cleanup function a second time.                           *)

\* C7 as claimed: whatever was called in between, the second invocation of
\* the same cleanup function leaves the subscriptions unchanged and raises
\* no error.
C7_SecondCleanupIsNoOp ==
    [][(last'.op = "cleanup" /\ last'.again) =>
          subscriptions' = subscriptions /\ last'.err = Ok]_vars

\* C7 amended: the second invocation of the same cleanup function raises no
\* error and touches nothing but its own callback in its own atom's Set:
\* it leaves the subscriptions unchanged unless the same callback has been
\* subscribed to the same atom again in between, and then it removes it.
C7_SecondCleanupRemovesOnlyItsOwn ==
    [][(last'.op = "cleanup" /\ last'.again) =>
        /\ last'.err = Ok
        /\ \A a \in AtomIds, cb \in DOMAIN callbacks :
              InSeq(cb, subscriptions'[a]) <=>
                 (InSeq(cb, subscriptions[a]) /\ <<a, cb>> # <<last'.atom, last'.cb>>)
        /\ ~InSeq(last'.cb, subscriptions[last'.atom]) =>
              subscriptions' = subscriptions]_vars

\* the cleanup function of first has run a second time while second is
\* subscribed to the same atom
C7_Witness ==
    /\ last.op = "cleanup" /\ last.again /\ last.cb = "first" /\ last.atom = "S"
    /\ subscriptions["S"] = <<"second">>

-----------------------------------------------------------------------------
(* C8: with two callbacks subscribed to one primitive atom, each setValue   *)
(* on it invokes each of them exactly once; a callback stays subscribed     *)
(* until its own cleanup function runs, and after that the next setValue    *)
(* invokes the other one exactly once and the removed one not at all.       *)
C8_FanOut ==
    [][/\ \A c \in cleanups' :
             ~c.invoked => InSeq(c.cb, subscriptions'[c.atom])
       /\ (last'.op = "setValue" /\ atoms[last'.atom].type = "primitive") =>
             \A cb \in DOMAIN callbacks :
                Fired(last'.log, last'.atom, cb) =
                   IF InSeq(cb, subscriptions[last'.atom]) THEN 1 ELSE 0]_vars

\* both were subscribed to S, first has been removed, and S is written
C8_Witness ==
    /\ last.op = "setValue" /\ last.atom = "S" /\ last.err = Ok
    /\ [atom |-> "S", cb |-> "first", invoked |-> TRUE] \in cleanups
    /\ [atom |-> "S", cb |-> "second", invoked |-> FALSE] \in cleanups
    /\ subscriptions["S"] = <<"second">>
    /\ Fired(last.log, "S", "second") = 1 /\ Fired(last.log, "S", "first") = 0

-----------------------------------------------------------------------------
(* C9: setValue(countAtom3WithWrite, v), whose write function does          *)
(* set(countAtom, get(countAtom) + v), leaves countAtom holding its value   *)
(* before the call plus v, and invokes the callbacks of countAtom and of    *)
(* every atom recorded as a transitive dependent of countAtom.              *)
WritesThroughAdd(l) ==
    /\ l.op = "setValue" /\ l.arg.fn = "none"
    /\ atoms[l.atom].write.k = "addTo"

C9_WriteHandlerIndirection ==
    [][WritesThroughAdd(last') =>
        LET s == atoms[last'.atom].write.s
        IN  /\ last'.err = Ok
            /\ last'.hand = <<last'.atom>>
            /\ atomPrimitiveValues' =
                  [atomPrimitiveValues EXCEPT ![s] = @ + last'.arg.v]
            /\ \A a \in Reach(dependencies, {s}) :
                  \A cb \in DOMAIN callbacks :
                     InSeq(cb, subscriptions[a]) =>
                        Fired(last'.log, a, cb) >= 1]_vars

\* countAtom went from 1 to 2 through countAtom3WithWrite, and the callbacks
\* on countAtom and on its dependent's dependent tripledAtom were invoked
C9_Witness ==
    /\ WritesThroughAdd(last) /\ last.atom = "countAtom3WithWrite"
    /\ last.arg.v = 1 /\ atomPrimitiveValues["countAtom"] = 2
    /\ Fired(last.log, "countAtom", "Counter") = 1
    /\ Fired(last.log, "tripledAtom", "TripleView") = 1

-----------------------------------------------------------------------------
(* C10: currentlyComputingAtom is restored on every way out of              *)
(* getAtomValue, also when the read function throws: after every call from  *)
(* outside, with no read in progress, it is null again, and every edge of   *)
(* the dependencies was recorded against the atom that was being computed,  *)
(* that is, leads from an atom to a derived atom whose read function names  *)
(* it.                                                                      *)
C10_ContextRestored ==
    /\ currentlyComputingAtom = NoAtom
    /\ \A a \in AtomIds, d \in AtomIds :
          Edge(dependencies, a, d) =>
             atoms[d].type = "derived" /\ a \in ReadsOf(atoms[d].read)

\* the read function of T threw inside the computation of U, and the call
\* ended with that error
C10_Witness ==
    /\ last.op = "getSnapshot" /\ last.atom = "U" /\ last.err = ThrownError
    /\ Edge(dependencies, "T", "U") /\ Edge(dependencies, "S", "T")
    /\ currentlyComputingAtom = NoAtom

-----------------------------------------------------------------------------
(* C11: setValue(S, v) stores v before it invokes any callback: in the      *)
(* diamond, every callback invoked by the call that re-reads S sees v and   *)
(* every callback that re-reads D (D1 + D2 = 2 * S + 3 * S) sees 5 * v,     *)
(* never a value computed from what S held before the call.                 *)
C11_Written ==
    IF last.arg.fn = "none" THEN last.arg.v ELSE atomPrimitiveValues["S"]

C11_CallbacksSeeNewValue ==
    (last.op = "setValue" /\ last.atom = "S") =>
        /\ atomPrimitiveValues["S"] = C11_Written
        /\ \A i \in 1..Len(last.log) :
              /\ callbacks[last.log[i].cb] = "S" =>
                    last.log[i].saw = <<C11_Written>>
              /\ callbacks[last.log[i].cb] = "D" =>
                    last.log[i].saw = <<5 * C11_Written>>

\* a plain write of MaxVal to S invoked a callback on S and one on D, and
\* they saw MaxVal and 5 * MaxVal
C11_Witness ==
    /\ last.op = "setValue" /\ last.atom = "S" /\ last.arg = Plain(MaxVal)
    /\ \E i \in 1..Len(last.log) :
          last.log[i] = [atom |-> "S", cb |-> "onS", saw |-> <<MaxVal>>]
    /\ \E i \in 1..Len(last.log) :
          last.log[i] = [atom |-> "D", cb |-> "onD", saw |-> <<5 * MaxVal>>]

-----------------------------------------------------------------------------
(* C12: notification does not depend on the value written: in the diamond,  *)
(* setValue(S, v) with v equal to the value S already holds invokes every   *)
(* callback subscribed to S or to an atom reachable from S in dependencies, *)
(* and invokes each callback as many times as the same call would had S    *)
(* held any other value w before it.                                        *)
C12_UnconditionalNotification ==
    [][(last'.op = "setValue" /\ last'.atom = "S" /\ last'.again) =>
        /\ \A a \in Reach(dependencies, {"S"}) :
              \A i \in 1..Len(subscriptions[a]) :
                 Fired(last'.log, a, subscriptions[a][i]) >= 1
        /\ \A w \in Values, a \in AtomIds, cb \in DOMAIN callbacks :
              Fired(last'.log, a, cb) =
                 Fired(setValue("S", last'.arg,
                                [Entry EXCEPT !.vals["S"] = w]).log, a, cb)]_vars

\* S was written with the value it held, after D had been evaluated, and
\* the callbacks on S and on D were invoked
C12_Witness ==
    /\ last.op = "setValue" /\ last.atom = "S" /\ last.again
    /\ last.arg = Plain(MaxVal)
    /\ DiamondEdges(dependencies)
    /\ Fired(last.log, "S", "onS") = 1
    /\ Fired(last.log, "D", "onD") = 2

-----------------------------------------------------------------------------
(* C13: setValue(S, updater) on a primitive atom S stores updater(c), c     *)
(* being the value atomPrimitiveValues holds for S when setValue is called: *)
(* with the updater (prev) => prev + v the value stored afterwards is       *)
(* c + v, the updater having been applied once, and no other entry changes. *)
C13_UpdaterAppliedOnce ==
    [][(/\ last'.op = "setValue" /\ last'.arg.fn = "add"
        /\ atoms[last'.atom].type = "primitive")
       => /\ last'.err = Ok
          /\ atomPrimitiveValues' =
                [atomPrimitiveValues EXCEPT ![last'.atom] = @ + last'.arg.v]]_vars

\* S reached MaxVal through the updater, and the callback that re-reads S
\* saw that value
C13_Witness ==
    /\ last.op = "setValue" /\ last.atom = "S" /\ last.arg = Updater(1)
    /\ atomPrimitiveValues["S"] = MaxVal
    /\ \E i \in 1..Len(last.log) :
          last.log[i] = [atom |-> "S", cb |-> "first", saw |-> <<MaxVal>>]

-----------------------------------------------------------------------------
(* C14: no call removes an edge from dependencies: the Set of every atom    *)
(* only grows, at its end.  So once X (which reads A only while S is 0) has *)
(* read A, every later setValue(A, v) invokes the callbacks subscribed to   *)
(* X, also when S is no longer 0 and X's read function does not read A.     *)
C14_GrowsOnly(before, after) ==
    /\ Len(before) <= Len(after)
    /\ SubSeq(after, 1, Len(before)) = before

C14_EdgesOnlyAdded ==
    [][/\ \A a \in AtomIds : C14_GrowsOnly(dependencies[a], dependencies'[a])
       /\ (last'.op = "setValue" /\ atoms[last'.atom].type = "primitive") =>
             \A d \in AtomIds :
                Edge(dependencies, last'.atom, d) =>
                   \A i \in 1..Len(subscriptions[d]) :
                      Fired(last'.log, d, subscriptions[d][i]) >= 1]_vars

\* A is written while S is not 0, X still depends on A and its callback
\* is invoked
C14_Witness ==
    /\ last.op = "setValue" /\ last.atom = "A"
    /\ atomPrimitiveValues["S"] # 0
    /\ Edge(dependencies, "A", "X")
    /\ Fired(last.log, "X", "onX") = 1

-----------------------------------------------------------------------------
(* C15: a tracked read is recorded against the innermost atom being         *)
(* evaluated, and against no other.  In the diamond, D reads D1 (whose read *)
(* function reads S) and then D2 (likewise): the only edges ever recorded   *)
(* are S -> D1, S -> D2, D1 -> D and D2 -> D.  There is never an edge       *)
(* S -> D for the reads made inside the nested evaluations, and D2, which   *)
(* D reads after the evaluation of D1 has returned, becomes a dependency of *)
(* D and not of D1.  A read of D leaves exactly these four edges.           *)
C15_EdgesOf(deps) ==
    {e \in AtomIds \X AtomIds : Edge(deps, e[1], e[2])}

C15_InnermostOnly ==
    /\ C15_EdgesOf(dependencies) \subseteq
          {<<"S", "D1">>, <<"S", "D2">>, <<"D1", "D">>, <<"D2", "D">>}
    /\ (last.op = "getSnapshot" /\ last.atom = "D") =>
          /\ C15_EdgesOf(dependencies) =
                {<<"S", "D1">>, <<"S", "D2">>, <<"D1", "D">>, <<"D2", "D">>}
          /\ dependencies["D1"] = <<"D">> /\ dependencies["D2"] = <<"D">>

\* D has just been read, nothing else having been read before: the edges
\* are recorded in the order of the reads
C15_Witness ==
    /\ last.op = "getSnapshot" /\ last.atom = "D" /\ last.err = Ok
    /\ dependencies =
          [S |-> <<"D1", "D2">>, D1 |-> <<"D">>, D2 |-> <<"D">>, D |-> <<>>]

-----------------------------------------------------------------------------
(* C16: every member of a Set of dependencies is a derived atom: no         *)
(* primitive atom is ever recorded as the dependent of an atom, whether the *)
(* atoms were read from outside, by a read function, by a callback or by    *)
(* the get handed to a write function.                                      *)
C16_DependentsAreDerived ==
    \A a \in AtomIds :
       \A i \in 1..Len(dependencies[a]) :
          dependencies[a][i] \in DerivedIds \ PrimitiveIds

\* the write function of W has read S with get and written it, with the
\* dependents of S recorded: S still has derived dependents only
C16_Witness ==
    /\ last.op = "setValue" /\ last.atom = "W" /\ last.hand = <<"W">>
    /\ last.err = Ok
    /\ Edge(dependencies, "S", "W") /\ Edge(dependencies, "S", "T")
    /\ Edge(dependencies, "T", "U")

-----------------------------------------------------------------------------
(* C17: the atoms that have an entry in atomPrimitiveValues are exactly the *)
(* primitive atoms created: atom(value) stores the entry, and no read, no   *)
(* setValue (from outside or made by a write function through set), no      *)
(* subscribe and no cleanup adds an entry for a derived atom or removes the *)
(* entry of a primitive atom.                                               *)
C17_StoreHoldsPrimitivesOnly ==
    /\ DOMAIN atomPrimitiveValues = PrimitiveIds
    /\ DOMAIN atomPrimitiveValues \cap DerivedIds = {}

\* the write function of WR has called set on the derived atom R, whose
\* callback was invoked, and R has no entry
C17_Witness ==
    /\ last.op = "setValue" /\ last.atom = "WR" /\ last.hand = <<"WR">>
    /\ last.err = Ok
    /\ Fired(last.log, "R", "onR") = 1
    /\ "R" \notin DOMAIN atomPrimitiveValues
    /\ "S" \in DOMAIN atomPrimitiveValues

-----------------------------------------------------------------------------
(* C18: a setValue on a primitive atom stores the value and invokes         *)
(* callbacks, nothing else.  With callbacks that do nothing themselves, the *)
(* call leaves dependencies, currentlyComputingAtom, subscriptions and the  *)
(* entry of every other atom in atomPrimitiveValues as they were, and runs  *)
(* the read function of no derived atom, the notified ones included.        *)
C18_PropagationOnlyNotifies ==
    [][(last'.op = "setValue" /\ atoms[last'.atom].type = "primitive") =>
        /\ dependencies' = dependencies
        /\ currentlyComputingAtom' = currentlyComputingAtom
        /\ subscriptions' = subscriptions
        /\ \A a \in PrimitiveIds \ {last'.atom} :
              atomPrimitiveValues'[a] = atomPrimitiveValues[a]
        /\ last'.ran = {}
        /\ last'.hand = <<>>]_vars

\* S was written after X had been evaluated: the callback of X was invoked
\* and the read function of X did not run
C18_Witness ==
    /\ last.op = "setValue" /\ last.atom = "S" /\ last.arg = Plain(MaxVal)
    /\ Edge(dependencies, "S", "X")
    /\ Fired(last.log, "X", "onX") = 1
    /\ last.ran = {}

-----------------------------------------------------------------------------
(* C19: one setValue(S, v) invokes the callbacks in depth-first pre-order   *)
(* of the atoms below S in dependencies: the callbacks of an atom, in the   *)
(* order they subscribed, before those of any of its dependents, and all    *)
(* the callbacks below one dependent before those of the next dependent.    *)
(* In the tree S -> D1 -> E, S -> D2 with D1 recorded before D2 that is     *)
(* D1, E, D2: neither D1, D2, E (breadth-first) nor E, D1, D2.              *)
RECURSIVE C19_Visit(_, _, _), C19_VisitAll(_, _, _, _), C19_Calls(_, _, _)

\* the atoms from atom down, n levels deep, in depth-first pre-order
C19_Visit(deps, atom, n) ==
    IF n = 0 THEN <<>>
    ELSE <<atom>> \o C19_VisitAll(deps, deps[atom], 1, n - 1)

C19_VisitAll(deps, s, i, n) ==
    IF i > Len(s) THEN <<>>
    ELSE C19_Visit(deps, s[i], n) \o C19_VisitAll(deps, s, i + 1, n)

\* the subscriptions of the atoms of order, from the i-th atom on
C19_Calls(subs, order, i) ==
    IF i > Len(order) THEN <<>>
    ELSE [j \in 1..Len(subs[order[i]]) |-> <<order[i], subs[order[i]][j]>>]
            \o C19_Calls(subs, order, i + 1)

C19_Invoked(log) == [i \in 1..Len(log) |-> <<log[i].atom, log[i].cb>>]

-----------------------------------------------------------------------------
(* C20: an atom becomes a dependent only when its read function runs.  In   *)
(* the tree, where D1 and D2 read S and E reads D1, a setValue(S, v)        *)
(* invokes no callback of a derived atom whose read function has not run    *)
(* yet, though the callback is subscribed and the read function would read  *)
(* S; once the read function has run (the atom was read, or an atom reading *)
(* it was), every setValue(S, v) invokes each of its callbacks.             *)
C20_EdgesOnlyAfterEvaluation ==
    [][(last'.op = "setValue" /\ last'.atom = "S") =>
          \A d \in DerivedIds :
             \A i \in 1..Len(subscriptions[d]) :
                IF d \in evaluated
                THEN Fired(last'.log, d, subscriptions[d][i]) >= 1
                ELSE Fired(last'.log, d, subscriptions[d][i]) = 0]_vars

\* D1 and D2 both have a callback subscribed; only D1 has been evaluated,
\* and the write of S invoked the callback of D1 alone
C20_Witness ==
    /\ last.op = "setValue" /\ last.atom = "S"
    /\ evaluated = {"D1"}
    /\ InSeq("onD1", subscriptions["D1"]) /\ InSeq("onD2", subscriptions["D2"])
    /\ Fired(last.log, "D1", "onD1") = 1
    /\ Fired(last.log, "D2", "onD2") = 0

-----------------------------------------------------------------------------
(* C21: atoms that are not related do not affect each other.  With the      *)
(* atoms of App.tsx, a setValue on countAtom or on countAtom2 invokes       *)
(* callbacks only on that atom and on atoms reachable from it in            *)
(* dependencies, and changes the value of no other primitive atom.          *)
(* countAtom2 is read by no atom: a write to it invokes the callbacks of    *)
(* countAtom2 alone and changes nothing but its own value, and every call   *)
(* on another atom invokes the same callbacks, with the same results, and   *)
(* leaves the same dependencies and the same values whatever countAtom2     *)
(* holds.  So runs that differ only in the writes to countAtom2 notify      *)
(* every other atom alike.                                                  *)
C21_Written(l) == IF atoms[l.atom].type = "primitive" THEN {l.atom} ELSE {}

\* the call of l made in the state where countAtom2 holds w instead
C21_With(l, w) ==
    LET entry == [Entry EXCEPT !.vals["countAtom2"] = w]
    IN  IF l.op = "setValue" THEN setValue(l.atom, l.arg, entry)
        ELSE getAtomValue(l.atom, entry).st

C21_Isolation ==
    [][/\ last'.op = "setValue" =>
             /\ \A i \in 1..Len(last'.log) :
                   last'.log[i].atom \in Reach(dependencies, C21_Written(last'))
             /\ \A a \in PrimitiveIds \ C21_Written(last') :
                   atomPrimitiveValues'[a] = atomPrimitiveValues[a]
       /\ (last'.op = "setValue" /\ last'.atom = "countAtom2") =>
             /\ \A i \in 1..Len(last'.log) : last'.log[i].atom = "countAtom2"
             /\ dependencies' = dependencies
       /\ (last'.op \in {"setValue", "getSnapshot"}
              /\ last'.atom # "countAtom2") =>
             \A w \in Values :
                LET other == C21_With(last', w)
                IN  /\ other.log = last'.log
                    /\ other.err = last'.err
                    /\ other.deps = dependencies'
                    /\ \A a \in PrimitiveIds \ {"countAtom2"} :
                          other.vals[a] = atomPrimitiveValues'[a]]_vars

\* countAtom2 is written while both components are subscribed and
\* tripledAtom depends on countAtom: the callback of Counter2 is the only
\* one invoked and countAtom keeps its value
C21_Witness ==
    /\ last.op = "setValue" /\ last.atom = "countAtom2"
    /\ last.arg = Plain(MaxVal) /\ atomPrimitiveValues["countAtom2"] = MaxVal
    /\ atomPrimitiveValues["countAtom"] = 1
    /\ InSeq("TripleView", subscriptions["tripledAtom"])
    /\ Edge(dependencies, "countAtom", "doubledAtom")
    /\ Edge(dependencies, "doubledAtom", "tripledAtom")
    /\ last.log = <<[atom |-> "countAtom2", cb |-> "Counter2", saw |-> <<MaxVal>>]>>

-----------------------------------------------------------------------------
(* C22: the subscriptions of an atom are a Set.  Subscribing a callback     *)
(* that the atom's Set already holds changes nothing: the Set, and the      *)
(* cleanup functions in hand, are as after the first subscribe.  So the     *)
(* callback is invoked once by each setValue on the atom, and one call of   *)
(* either cleanup function removes it from the Set altogether: no later     *)
(* setValue invokes it, though the other cleanup function was never called. *)
C22_SubscribedTwiceIsOnce ==
    [][/\ (last'.op = "subscribe" /\ last'.again) =>
             /\ subscriptions' = subscriptions
             /\ cleanups' = cleanups
       /\ \A a \in AtomIds :
             Cardinality({subscriptions'[a][i] : i \in 1..Len(subscriptions'[a])})
                = Len(subscriptions'[a])
       /\ (last'.op = "setValue" /\ last'.atom = "S") =>
             \A cb \in DOMAIN callbacks :
                Fired(last'.log, "S", cb) =
                   IF InSeq(cb, subscriptions["S"]) THEN 1 ELSE 0
       /\ last'.op = "cleanup" =>
             ~InSeq(last'.cb, subscriptions'[last'.atom])]_vars

\* first has just been subscribed to S a second time, second being
\* subscribed too: the Set holds first once
C22_Witness ==
    /\ last.op = "subscribe" /\ last.again
    /\ last.atom = "S" /\ last.cb = "first"
    /\ subscriptions["S"] = <<"first", "second">>
    /\ \A c \in cleanups : ~c.invoked

====
